---- MODULE Spec2Model ----
(***************************************************************************)
(* Battleship: the ground-truth board (src/board.py) and the three agents  *)
(* that play against it (src/agent.py).                                    *)
(*                                                                         *)
(* One behaviour is one run of app.run_game: a board configuration is      *)
(* handed to BattleshipBoard.__init__, which builds the grid or raises;    *)
(* an agent is constructed on the accepted board; start_game then runs,    *)
(* one attack call per step.                                               *)
(***************************************************************************)
EXTENDS Integers, Sequences, FiniteSets, TLC

(***************************************************************************)
(* Bounds of the model.                                                    *)
(***************************************************************************)
\* largest grid dimension n of a board configuration
MaxN == 3
\* seeds 0..MaxSeed are handed to RandomAgent
MaxSeed == 2
\* number of attack calls a direct caller makes
MaxCalls == 3

\* side lengths a declared ship type may have
ShipSides == {1, 2}
\* total number of placed ships of a configuration
ShipTotals == {0, 1, 2}
\* number of ship types a configuration declares
TypeCounts == {0, 1, 2}
\* grid dimensions of the boards a direct caller attacks
AttackSizes == {1, 2}

(***************************************************************************)
(* src/board.py: cell values of the grid.                                  *)
(***************************************************************************)
CELL_HIT == -1
CELL_EMPTY == 0

(***************************************************************************)
(* src/data_types.py: AttackResult.                                        *)
(***************************************************************************)
AttackResult == {"HIT", "MISS", "SUNK", "INVALID"}

Cells(n) == (0 .. n - 1) \X (0 .. n - 1)

(***************************************************************************)
(* Board configurations (data_types.BoardConfig): n and a list of Ship     *)
(* records {length, breadth, count, positions}.  The family below holds    *)
(* the configurations within the bounds whose declared count equals the    *)
(* number of positions, and, for one-position configurations, also the     *)
(* ones whose declared count is off by one.  A ship may reach over the     *)
(* edge of the grid or onto another ship; one-ship configurations also     *)
(* start at row or column -1.                                              *)
(***************************************************************************)
Ship(l, b, cnt, pos) == [length |-> l, breadth |-> b, count |-> cnt, positions |-> pos]

PositionLists(n, k) == [1 .. k -> Cells(n)]

ShipsOfType(n, k) ==
    { Ship(l, b, k, pos) : l \in ShipSides, b \in ShipSides, pos \in PositionLists(n, k) }

MiscountedShips(n) ==
    { Ship(l, b, k, pos) : l \in ShipSides, b \in ShipSides, k \in {0, 2},
                           pos \in PositionLists(n, 1) }

\* how many ships each of two declared types places: at most one each (two
\* ships of one type come from the one-type lists)
CountPairs == { kk \in {0, 1} \X {0, 1} : kk[1] + kk[2] \in ShipTotals }

\* one ship whose start position has a negative coordinate
NegativeShips(n) ==
    { Ship(l, b, 1, <<pos>>) : l \in ShipSides, b \in ShipSides,
                               pos \in ((-1 .. n - 1) \X (-1 .. n - 1)) \ Cells(n) }

ShipLists(n) ==
    (IF 0 \in TypeCounts THEN { <<>> } ELSE {})
    \cup
    (IF 1 \in TypeCounts
     THEN { <<s>> : s \in UNION { ShipsOfType(n, k) : k \in ShipTotals }
                          \cup MiscountedShips(n) \cup NegativeShips(n) }
     ELSE {})
    \cup
    (IF 2 \in TypeCounts
     THEN UNION { { <<s, t>> : s \in ShipsOfType(n, kk[1]), t \in ShipsOfType(n, kk[2]) } :
                  kk \in CountPairs }
     ELSE {})

ConfigsOfSize(n) == { [n |-> n, ships |-> ships] : ships \in ShipLists(n) }

Configs == UNION { ConfigsOfSize(n) : n \in 1 .. MaxN }

\* the board of 4 x 4 cells with one 1 x 2 ship on (0,0) and (0,1)
BoardFour == [n |-> 4, ships |-> <<Ship(1, 2, 1, << <<0, 0>> >>)>>]

(***************************************************************************)
(* BattleshipBoard.__init__ (src/board.py:22-88).                          *)
(***************************************************************************)
Range(seq) == { seq[k] : k \in 1 .. Len(seq) }

\* ships.index(ship): the 0-based index of the first equal element
IndexOf(ships, ship) ==
    (CHOOSE i \in 1 .. Len(ships) :
        ships[i] = ship /\ \A j \in 1 .. i - 1 : ships[j] # ship) - 1

\* np.inf is <<>>, a number v is <<v>>
IsLess(v, min) == min = <<>> \/ v < min[1]

\* lines 40-47 (and 48-55): the running minimum and the list of indices
\* achieving it; a smaller value overwrites only element 0 of the list
UpdateMin(v, min, ids, index) ==
    IF IsLess(v, min)
    THEN [min |-> <<v>>,
          ids |-> IF Len(ids) = 0 THEN <<index>> ELSE [ids EXCEPT ![1] = index]]
    ELSE IF min = <<v>>
         THEN [min |-> min, ids |-> Append(ids, index)]
         ELSE [min |-> min, ids |-> ids]

\* lines 36-55: the first loop over the declared ships
RECURSIVE ScanShips(_, _, _)
ScanShips(ships, i, st) ==
    IF i > Len(ships) THEN st
    ELSE LET ship == ships[i]
             ml == UpdateMin(ship.length, st.min_l, st.min_l_id, IndexOf(ships, ship))
             mb == UpdateMin(ship.breadth, st.min_b, st.min_b_id, IndexOf(ships, ship))
         IN IF ship.count # Len(ship.positions)
            THEN [st EXCEPT !.err = "Ship count does not match with number of ships"]
            ELSE ScanShips(ships, i + 1,
                    [err |-> "",
                     total_ship_area |-> st.total_ship_area
                                         + ship.length * ship.breadth * ship.count,
                     min_l |-> ml.min, min_l_id |-> ml.ids,
                     min_b |-> mb.min, min_b_id |-> mb.ids])

ScanStart ==
    [err |-> "", total_ship_area |-> 0,
     min_l |-> <<>>, min_l_id |-> <<>>, min_b |-> <<>>, min_b_id |-> <<>>]

\* lines 58-62
MinimalShipMissing(st) ==
    \E k \in 1 .. Len(st.min_l_id) : st.min_l_id[k] \notin Range(st.min_b_id)

\* lines 75-76: the cells of one placement in loop order (i outer, j inner)
PlacementCells(l, b, x, y) ==
    [k \in 1 .. l * b |-> <<x + ((k - 1) \div b), y + ((k - 1) % b)>>]

\* numpy indexing of an axis of size n: a negative index counts from the end
Wrap(p, n) == IF p < 0 THEN p + n ELSE p

\* lines 77-85 for the cells of one ship, in order
RECURSIVE PlaceCells(_, _, _, _, _)
PlaceCells(st, n, id, cells, k) ==
    IF k > Len(cells) \/ st.err # "" THEN st
    ELSE LET p == cells[k][1]
             q == cells[k][2]
         IN IF p < n /\ q < n
            THEN IF p < 0 - n \/ q < 0 - n
                 THEN [st EXCEPT !.err = "IndexError"]
                 ELSE IF st.board[<<Wrap(p, n), Wrap(q, n)>>] # 0
                      THEN [st EXCEPT !.err = "Ship overlaps"]
                      ELSE PlaceCells(
                             [st EXCEPT !.board[<<Wrap(p, n), Wrap(q, n)>>] = id],
                             n, id, cells, k + 1)
            ELSE [st EXCEPT !.err = "Ship is out of bounds"]

\* lines 69-85: ships in declaration order, positions in list order, ids from 1
RECURSIVE PlaceShips(_, _, _, _, _)
PlaceShips(st, n, ships, s, p) ==
    IF s > Len(ships) \/ st.err # "" THEN st
    ELSE IF p > Len(ships[s].positions) THEN PlaceShips(st, n, ships, s + 1, 1)
    ELSE LET ship == ships[s]
             id == Len(st.SHIP_CELLS) + 1
             st1 == [st EXCEPT !.SHIP_CELLS = Append(@, ship.length * ship.breadth)]
             st2 == PlaceCells(st1, n, id,
                       PlacementCells(ship.length, ship.breadth,
                                      ship.positions[p][1], ship.positions[p][2]), 1)
         IN PlaceShips(st2, n, ships, s, p + 1)

\* the whole constructor: err = "" when the board is accepted
NewBoard(cfg) ==
    LET st == ScanShips(cfg.ships, 1, ScanStart)
        empty == [err |-> "", board |-> [cell \in Cells(cfg.n) |-> CELL_EMPTY],
                  SHIP_CELLS |-> <<>>]
    IN IF st.err # "" THEN [empty EXCEPT !.err = st.err]
       ELSE IF MinimalShipMissing(st)
       THEN [empty EXCEPT !.err = "No ship type with both smallest length and smallest breath"]
       ELSE IF st.total_ship_area > cfg.n * cfg.n
       THEN [empty EXCEPT !.err = "Ships do not all fit on board"]
       ELSE PlaceShips(empty, cfg.n, cfg.ships, 1, 1)

(***************************************************************************)
(* BattleshipBoard.attack (src/board.py:90-113).  board[r, c] is a numpy    *)
(* index: an index in -n..-1 counts from the end of the axis, any other    *)
(* index outside 0..n-1 raises IndexError before a branch is taken.        *)
(***************************************************************************)
InIndexRange(p, n) == 0 - n <= p /\ p < n

\* attack with line 110's alternative taken: every hit on a ship reports SUNK
attack_sunk_on_hit(b, cells, n, r, c) ==
    IF ~(InIndexRange(r, n) /\ InIndexRange(c, n))
    THEN [result |-> "IndexError", board |-> b, SHIP_CELLS |-> cells]
    ELSE LET cell == <<Wrap(r, n), Wrap(c, n)>>
             ship_id == b[cell]
         IN IF b[cell] = CELL_EMPTY
            THEN [result |-> "MISS", board |-> [b EXCEPT ![cell] = CELL_HIT],
                  SHIP_CELLS |-> cells]
            ELSE IF b[cell] = CELL_HIT
            THEN [result |-> "HIT", board |-> b, SHIP_CELLS |-> cells]
            ELSE IF b[cell] > 0
            THEN [result |-> "SUNK",
                  board |-> [b EXCEPT ![cell] = CELL_HIT],
                  SHIP_CELLS |-> [cells EXCEPT ![ship_id] = @ - 1]]
            ELSE [result |-> "INVALID", board |-> b, SHIP_CELLS |-> cells]

\* attack without line 106: the remaining-cell count is never decremented
attack_count_kept(b, cells, n, r, c) ==
    IF ~(InIndexRange(r, n) /\ InIndexRange(c, n))
    THEN [result |-> "IndexError", board |-> b, SHIP_CELLS |-> cells]
    ELSE LET cell == <<Wrap(r, n), Wrap(c, n)>>
             ship_id == b[cell]
         IN IF b[cell] = CELL_EMPTY
            THEN [result |-> "MISS", board |-> [b EXCEPT ![cell] = CELL_HIT],
                  SHIP_CELLS |-> cells]
            ELSE IF b[cell] = CELL_HIT
            THEN [result |-> "HIT", board |-> b, SHIP_CELLS |-> cells]
            ELSE IF b[cell] > 0
            THEN [result |-> IF cells[ship_id] = 0 THEN "SUNK" ELSE "HIT",
                  board |-> [b EXCEPT ![cell] = CELL_HIT],
                  SHIP_CELLS |-> cells]
            ELSE [result |-> "INVALID", board |-> b, SHIP_CELLS |-> cells]

\* attack without line 94: a miss leaves the cell empty
attack_miss_unmarked(b, cells, n, r, c) ==
    IF ~(InIndexRange(r, n) /\ InIndexRange(c, n))
    THEN [result |-> "IndexError", board |-> b, SHIP_CELLS |-> cells]
    ELSE LET cell == <<Wrap(r, n), Wrap(c, n)>>
             ship_id == b[cell]
         IN IF b[cell] = CELL_EMPTY
            THEN [result |-> "MISS", board |-> b, SHIP_CELLS |-> cells]
            ELSE IF b[cell] = CELL_HIT
            THEN [result |-> "HIT", board |-> b, SHIP_CELLS |-> cells]
            ELSE IF b[cell] > 0
            THEN [result |-> IF cells[ship_id] - 1 = 0 THEN "SUNK" ELSE "HIT",
                  board |-> [b EXCEPT ![cell] = CELL_HIT],
                  SHIP_CELLS |-> [cells EXCEPT ![ship_id] = @ - 1]]
            ELSE [result |-> "INVALID", board |-> b, SHIP_CELLS |-> cells]

\* attack without line 105: a struck ship cell keeps its id
attack_ship_unmarked(b, cells, n, r, c) ==
    IF ~(InIndexRange(r, n) /\ InIndexRange(c, n))
    THEN [result |-> "IndexError", board |-> b, SHIP_CELLS |-> cells]
    ELSE LET cell == <<Wrap(r, n), Wrap(c, n)>>
             ship_id == b[cell]
         IN IF b[cell] = CELL_EMPTY
            THEN [result |-> "MISS", board |-> [b EXCEPT ![cell] = CELL_HIT],
                  SHIP_CELLS |-> cells]
            ELSE IF b[cell] = CELL_HIT
            THEN [result |-> "HIT", board |-> b, SHIP_CELLS |-> cells]
            ELSE IF b[cell] > 0
            THEN [result |-> IF cells[ship_id] - 1 = 0 THEN "SUNK" ELSE "HIT",
                  board |-> b,
                  SHIP_CELLS |-> [cells EXCEPT ![ship_id] = @ - 1]]
            ELSE [result |-> "INVALID", board |-> b, SHIP_CELLS |-> cells]

attack(b, cells, n, r, c) ==
    IF ~(InIndexRange(r, n) /\ InIndexRange(c, n))
    THEN [result |-> "IndexError", board |-> b, SHIP_CELLS |-> cells]
    ELSE LET cell == <<Wrap(r, n), Wrap(c, n)>>
             ship_id == b[cell]
         IN IF b[cell] = CELL_EMPTY
            THEN [result |-> "MISS", board |-> [b EXCEPT ![cell] = CELL_HIT],
                  SHIP_CELLS |-> cells]
            ELSE IF b[cell] = CELL_HIT
            THEN [result |-> "HIT", board |-> b, SHIP_CELLS |-> cells]
            ELSE IF b[cell] > 0
            THEN [result |-> IF cells[ship_id] - 1 = 0 THEN "SUNK" ELSE "HIT",
                  board |-> [b EXCEPT ![cell] = CELL_HIT],
                  SHIP_CELLS |-> [cells EXCEPT ![ship_id] = @ - 1]]
            ELSE [result |-> "INVALID", board |-> b, SHIP_CELLS |-> cells]

(***************************************************************************)
(* src/agent.py: helpers of the agents.                                    *)
(***************************************************************************)
Min(a, b) == IF a < b THEN a ELSE b
Max(a, b) == IF a > b THEN a ELSE b

\* the number of declared types in place of the sum of their counts
SumTypes(ships, i) == Len(ships)

\* sum([ship.count for ship in ships])
RECURSIVE SumCounts(_, _)
SumCounts(ships, i) ==
    IF i > Len(ships) THEN 0 ELSE ships[i].count + SumCounts(ships, i + 1)

\* OptimalAgent.__init__: min(ship.length * ship.breadth for ship in ships)
MinArea(ships) ==
    CHOOSE a \in { ships[i].length * ships[i].breadth : i \in 1 .. Len(ships) } :
        \A i \in 1 .. Len(ships) : a <= ships[i].length * ships[i].breadth

\* len(range(0, limit, step))
Steps(limit, step) == (limit + step - 1) \div step

\* OptimalAgent.seek: the number of iterations of the three nested loops and
\* the cell (r + x, c + x) of iteration k (from 0), r outer, c, x inner
LatticeLen(n, large_side, small_side) ==
    Steps(n, large_side) * Steps(n, large_side) * Steps(large_side, small_side)

LatticeCell(k, n, large_side, small_side) ==
    LET nx == Steps(large_side, small_side)
        nc == Steps(n, large_side)
        x == (k % nx) * small_side
        c == ((k \div nx) % nc) * large_side
        r == (k \div (nx * nc)) * large_side
    IN <<r + x, c + x>>

\* the guard without its test of the visited mask
ProbeableUnmasked(cell, n, mask) ==
    /\ 0 <= cell[1] /\ cell[1] < n
    /\ 0 <= cell[2] /\ cell[2] < n

\* the guard of seek (line 86) and of sink (line 104): in bounds and unvisited
Probeable(cell, n, mask) ==
    /\ 0 <= cell[1] /\ cell[1] < n
    /\ 0 <= cell[2] /\ cell[2] < n
    /\ mask[cell] = 0

\* the neighbour list with (i, j+1) twice and (i, j-1) missing
NeighbourNoLeft(cell, k) ==
    CASE k = 1 -> <<cell[1] + 1, cell[2]>>
      [] k = 2 -> <<cell[1] - 1, cell[2]>>
      [] OTHER -> <<cell[1], cell[2] + 1>>

\* sink with (i+1, j) missing from its neighbour list
NeighbourNoDown(cell, k) ==
    CASE k = 1 -> <<cell[1] - 1, cell[2]>>
      [] k = 2 -> <<cell[1] - 1, cell[2]>>
      [] k = 3 -> <<cell[1], cell[2] + 1>>
      [] OTHER -> <<cell[1], cell[2] - 1>>

\* sink: the neighbours of (i, j) in the order of line 103
Neighbour(cell, k) ==
    CASE k = 1 -> <<cell[1] + 1, cell[2]>>
      [] k = 2 -> <<cell[1] - 1, cell[2]>>
      [] k = 3 -> <<cell[1], cell[2] + 1>>
      [] OTHER -> <<cell[1], cell[2] - 1>>

\* sink: run the two loops of lines 101-104 from the state (queue, the cell
\* (i, j) popped last, the neighbour to try next) up to the next neighbour
\* that is attacked; found = FALSE when the queue runs empty first
RECURSIVE SinkScan(_, _, _, _, _)
SinkScan(q, cell, k, n, mask) ==
    IF cell # <<>> /\ k <= 4
    THEN IF Probeable(Neighbour(cell, k), n, mask)
         THEN [found |-> TRUE, queue |-> q, ij |-> cell, nbr |-> k]
         ELSE SinkScan(q, cell, k + 1, n, mask)
    ELSE IF q = <<>>
         THEN [found |-> FALSE, queue |-> q, ij |-> <<>>, nbr |-> 1]
         ELSE SinkScan(Tail(q), Head(q), 1, n, mask)

\* RandomAgent.__init__: random.seed(seed); random.shuffle(row-major cells),
\* the permutations CPython's generator yields for seeds 0..3
Shuffle(seed, n) ==
    CASE n = 1 -> << <<0, 0>> >>
      [] n = 2 /\ seed = 0 -> << <<1, 0>>, <<0, 0>>, <<0, 1>>, <<1, 1>> >>
      [] n = 2 /\ seed = 1 -> << <<1, 1>>, <<0, 0>>, <<1, 0>>, <<0, 1>> >>
      [] n = 2 /\ seed = 2 -> << <<0, 1>>, <<1, 0>>, <<1, 1>>, <<0, 0>> >>
      [] n = 2 /\ seed = 3 -> << <<1, 1>>, <<0, 0>>, <<1, 0>>, <<0, 1>> >>
      [] n = 3 /\ seed = 0 -> << <<2, 1>>, <<1, 2>>, <<0, 1>>, <<1, 0>>, <<1, 1>>,
                                 <<0, 2>>, <<0, 0>>, <<2, 2>>, <<2, 0>> >>
      [] n = 3 /\ seed = 1 -> << <<1, 2>>, <<2, 0>>, <<2, 1>>, <<1, 1>>, <<1, 0>>,
                                 <<0, 0>>, <<2, 2>>, <<0, 1>>, <<0, 2>> >>
      [] n = 3 /\ seed = 2 -> << <<1, 0>>, <<2, 0>>, <<1, 1>>, <<1, 2>>, <<2, 1>>,
                                 <<0, 2>>, <<2, 2>>, <<0, 1>>, <<0, 0>> >>
      [] n = 3 /\ seed = 3 -> << <<0, 1>>, <<1, 2>>, <<2, 0>>, <<0, 0>>, <<2, 2>>,
                                 <<1, 1>>, <<2, 1>>, <<0, 2>>, <<1, 0>> >>
      [] n = 4 /\ seed = 0 -> << <<2, 2>>, <<3, 2>>, <<1, 1>>, <<0, 1>>, <<2, 1>>,
                                 <<0, 2>>, <<0, 3>>, <<2, 3>>, <<3, 1>>, <<1, 3>>,
                                 <<2, 0>>, <<1, 0>>, <<0, 0>>, <<1, 2>>, <<3, 3>>,
                                 <<3, 0>> >>
      [] n = 4 /\ seed = 1 -> << <<0, 2>>, <<2, 2>>, <<0, 0>>, <<3, 2>>, <<1, 2>>,
                                 <<1, 1>>, <<0, 3>>, <<2, 0>>, <<1, 3>>, <<2, 3>>,
                                 <<3, 3>>, <<0, 1>>, <<3, 0>>, <<3, 1>>, <<2, 1>>,
                                 <<1, 0>> >>
      [] n = 4 /\ seed = 2 -> << <<3, 0>>, <<2, 3>>, <<1, 3>>, <<3, 1>>, <<1, 2>>,
                                 <<0, 0>>, <<2, 0>>, <<0, 3>>, <<2, 1>>, <<1, 0>>,
                                 <<2, 2>>, <<0, 2>>, <<1, 1>>, <<3, 2>>, <<3, 3>>,
                                 <<0, 1>> >>
      [] n = 4 /\ seed = 3 -> << <<1, 0>>, <<2, 3>>, <<2, 2>>, <<3, 1>>, <<3, 0>>,
                                 <<0, 3>>, <<1, 2>>, <<0, 0>>, <<0, 1>>, <<3, 3>>,
                                 <<3, 2>>, <<1, 1>>, <<0, 2>>, <<2, 0>>, <<2, 1>>,
                                 <<1, 3>> >>

\* the count of the cells left unmarked
CountUnvisited(mask) == Cardinality({ cell \in DOMAIN mask : mask[cell] = 0 })

\* sum(self.board.flatten() == 1)
CountVisited(mask) == Cardinality({ cell \in DOMAIN mask : mask[cell] = 1 })

(***************************************************************************)
(* State.                                                                  *)
(*   board_config, board, SHIP_CELLS   the BattleshipBoard                 *)
(*   names      the names bound in module agent besides those it imports:  *)
(*              agent.py uses deque and random and imports neither, so as  *)
(*              shipped names = {} and the first use raises NameError; the *)
(*              model also covers the module with both names bound         *)
(*   agent, visited (the agent's self.board), total_ships, ships_sunk,     *)
(*   moves, step_size      the agent's fields and start_game's locals      *)
(*   pos        iterations consumed of the loop start_game or seek runs    *)
(*   queue, ij, nbr        sink's deque, the popped cell, the neighbour    *)
(*   available_cells, seed RandomAgent                                     *)
(*   result     what start_game returned, <<>> before it returns           *)
(*   raised     the exception that ended the run, "" when none             *)
(*   attacks    per cell, the attack calls the board has answered          *)
(*   sunk_seen  the number of SUNK outcomes the board has returned         *)
(*   last       the latest attack call and its outcome                     *)
(*   calls      attack calls made by a direct caller of the board          *)
(*   answers    the attack function handed to BattleshipAgentBoard: <<>>   *)
(*              for the board's own attack, else the outcome it returns    *)
(*              for each cell                                              *)
(*   other_board  the grid of a second BattleshipBoard instance of the     *)
(*              same process, <<>> while there is none                     *)
(*   trace      the cells attacked in the current game, in order           *)
(*   first      what an earlier game of the same process did, <<>> when    *)
(*              there was none                                             *)
(***************************************************************************)
VARIABLES board_config, board, SHIP_CELLS, pc, names, agent, visited,
          total_ships, ships_sunk, moves, step_size, pos, queue, ij, nbr,
          available_cells, seed, result, raised, attacks, trace, sunk_seen, last, calls,
          answers, other_board, first

vars == <<board_config, board, SHIP_CELLS, pc, names, agent, visited,
          total_ships, ships_sunk, moves, step_size, pos, queue, ij, nbr,
          available_cells, seed, result, raised, attacks, trace, sunk_seen, last, calls,
          answers, other_board, first>>

boardVars == <<board_config, board, SHIP_CELLS>>
sinkVars == <<queue, ij, nbr>>
randomVars == <<available_cells, seed>>
envVars == <<answers, other_board, first>>

n == board_config.n
large_side == Max(step_size, step_size)
small_side == Min(step_size, step_size)

NoCall == [r |-> 0, c |-> 0, result |-> "NONE"]

InitWith(configs, namesets) ==
    /\ board_config \in configs
    /\ board = <<>>
    /\ SHIP_CELLS = <<>>
    /\ pc = "start"
    /\ names \in namesets
    /\ agent = ""
    /\ visited = <<>>
    /\ total_ships = 0
    /\ ships_sunk = 0
    /\ moves = 0
    /\ step_size = 0
    /\ pos = 0
    /\ queue = <<>>
    /\ ij = <<>>
    /\ nbr = 1
    /\ available_cells = <<>>
    /\ seed = 0
    /\ result = <<>>
    /\ raised = ""
    /\ attacks = <<>>
    /\ sunk_seen = 0
    /\ last = NoCall
    /\ calls = 0
    /\ other_board = <<>>
    /\ trace = <<>>
    /\ first = <<>>

\* module agent as shipped, and with deque and random bound
Namespaces == { {}, {"deque", "random"} }

Init == InitWith(Configs \cup {BoardFour}, Namespaces) /\ answers = <<>>

\* app.run_game line 89: BattleshipBoard(board_config)
Construct ==
    /\ pc = "start"
    /\ LET b == NewBoard(board_config)
       IN /\ board' = b.board
          /\ SHIP_CELLS' = b.SHIP_CELLS
          /\ attacks' = [cell \in Cells(n) |-> 0]
          /\ trace' = <<>>
          /\ IF b.err = ""
             THEN pc' = "board" /\ raised' = ""
             ELSE pc' = "rejected"
                  /\ raised' = IF b.err = "IndexError" THEN "IndexError" ELSE "ValueError"
    /\ UNCHANGED <<board_config, names, agent, visited, total_ships, ships_sunk, moves,
                   step_size, pos, queue, ij, nbr, available_cells, seed, result,
                   sunk_seen, last, calls, envVars>>

\* one attack call of the agent on an in-range cell, through the attack
\* function its BattleshipAgentBoard was given (src/board.py:128-132): the
\* answer, the board's new state and the record of the call
Strike(cell) ==
    IF answers = <<>>
    THEN attack(board, SHIP_CELLS, n, cell[1], cell[2])
    ELSE [result |-> answers[cell], board |-> board, SHIP_CELLS |-> SHIP_CELLS]

\* an attack whose effect on the grid is lost
StruckGridKept(cell, a) ==
    /\ board' = board
    /\ SHIP_CELLS' = a.SHIP_CELLS
    /\ attacks' = [attacks EXCEPT ![cell] = @ + 1]
    /\ trace' = Append(trace, cell)
    /\ sunk_seen' = sunk_seen + (IF a.result = "SUNK" THEN 1 ELSE 0)
    /\ last' = [r |-> cell[1], c |-> cell[2], result |-> a.result]

Struck(cell, a) ==
    /\ board' = a.board
    /\ SHIP_CELLS' = a.SHIP_CELLS
    /\ attacks' = [attacks EXCEPT ![cell] = @ + 1]
    /\ trace' = Append(trace, cell)
    /\ sunk_seen' = sunk_seen + (IF a.result = "SUNK" THEN 1 ELSE 0)
    /\ last' = [r |-> cell[1], c |-> cell[2], result |-> a.result]

\* a return that drops the error message
ReturnNoMessage(m, err) ==
    /\ result' = <<m, "">>
    /\ pc' = "done"

Return(m, err) ==
    /\ result' = <<m, err>>
    /\ pc' = "done"

\* BaseAgent.__init__ (src/agent.py:19-22)
BaseInit(kind) ==
    /\ agent' = kind
    /\ visited' = [cell \in Cells(n) |-> 0]

(***************************************************************************)
(* BruteForceAgent.start_game (src/agent.py:46-65).                        *)
(***************************************************************************)
NewBruteForceAgent ==
    /\ pc = "board"
    /\ BaseInit("BruteForceAgent")
    /\ total_ships' = SumCounts(board_config.ships, 1)
    /\ ships_sunk' = 0
    /\ moves' = 0
    /\ pos' = 0
    /\ pc' = "brute"
    /\ UNCHANGED <<boardVars, names, step_size, sinkVars, randomVars, result, raised,
                   attacks, trace, sunk_seen, last, calls, envVars>>

\* the loop without lines 56-57: INVALID is an outcome like MISS
BruteStepPastInvalid ==
    /\ pc = "brute"
    /\ IF pos >= n * n
       THEN /\ Return(-1, "Unknown Error: Should not have happened")
            /\ UNCHANGED <<boardVars, attacks, trace, sunk_seen, last, moves, ships_sunk, pos>>
       ELSE LET cell == <<pos \div n, pos % n>>
                a == Strike(cell)
                sunk == ships_sunk + (IF a.result = "SUNK" THEN 1 ELSE 0)
            IN /\ Struck(cell, a)
               /\ moves' = moves + 1
               /\ UNCHANGED board_config
               /\ ships_sunk' = sunk
               /\ IF sunk = total_ships
                  THEN Return(moves + 1, "") /\ pos' = pos
                  ELSE pos' = pos + 1 /\ UNCHANGED <<pc, result>>
    /\ UNCHANGED <<names, agent, visited, total_ships, step_size, sinkVars, randomVars,
                   raised, calls, envVars>>

\* one iteration of the loops of lines 51-63, or their end (line 65)
BruteStep ==
    /\ pc = "brute"
    /\ IF pos >= n * n
       THEN /\ Return(-1, "Unknown Error: Should not have happened")
            /\ UNCHANGED <<boardVars, attacks, trace, sunk_seen, last, moves, ships_sunk, pos>>
       ELSE LET cell == <<pos \div n, pos % n>>
                a == Strike(cell)
                sunk == ships_sunk + (IF a.result = "SUNK" THEN 1 ELSE 0)
            IN /\ Struck(cell, a)
               /\ moves' = moves + 1
               /\ UNCHANGED board_config
               /\ IF a.result = "INVALID"
                  THEN Return(-1, "INVALID ERROR") /\ UNCHANGED <<ships_sunk, pos>>
                  ELSE /\ ships_sunk' = sunk
                       /\ IF sunk = total_ships
                          THEN Return(moves + 1, "") /\ pos' = pos
                          ELSE pos' = pos + 1 /\ UNCHANGED <<pc, result>>
    /\ UNCHANGED <<names, agent, visited, total_ships, step_size, sinkVars, randomVars,
                   raised, calls, envVars>>

(***************************************************************************)
(* OptimalAgent (src/agent.py:67-118).                                     *)
(***************************************************************************)
\* __init__, then start_game enters seek; min() of no ships raises ValueError
NewOptimalAgent ==
    /\ pc = "board"
    /\ BaseInit("OptimalAgent")
    /\ total_ships' = SumCounts(board_config.ships, 1)
    /\ ships_sunk' = 0
    /\ moves' = 0
    /\ pos' = 0
    /\ IF board_config.ships = <<>>
       THEN pc' = "raised" /\ raised' = "ValueError" /\ step_size' = step_size
       ELSE pc' = "seek" /\ raised' = raised /\ step_size' = MinArea(board_config.ships)
    /\ UNCHANGED <<boardVars, names, sinkVars, randomVars, result, attacks, trace, sunk_seen,
                   last, calls, envVars>>

\* the iterations of seek's loops, from pos on, whose cell passes line 86
LatticeNext ==
    { k \in pos .. LatticeLen(n, large_side, small_side) - 1 :
        Probeable(LatticeCell(k, n, large_side, small_side), n, visited) }

\* sink(ar, ac) is entered: line 100 needs the name deque
EnterSink(cell, sinkpc) ==
    IF "deque" \in names
    THEN /\ pc' = sinkpc
         /\ queue' = <<cell>>
         /\ ij' = <<>>
         /\ nbr' = 1
         /\ raised' = raised
    ELSE /\ pc' = "raised"
         /\ raised' = "NameError"
         /\ UNCHANGED sinkVars

\* seek, lines 82-95: the next lattice cell that is probed
SeekProbe ==
    /\ pc = "seek"
    /\ LatticeNext # {}
    /\ LET k == CHOOSE k \in LatticeNext : \A m \in LatticeNext : k <= m
           cell == LatticeCell(k, n, large_side, small_side)
           a == Strike(cell)
       IN /\ Struck(cell, a)
          /\ moves' = moves + 1
          /\ visited' = [visited EXCEPT ![cell] = 1]
          /\ pos' = k + 1
          /\ IF a.result = "HIT"
             THEN EnterSink(cell, "sink") /\ result' = result
             ELSE /\ UNCHANGED <<sinkVars, raised>>
                  /\ IF ships_sunk = total_ships
                     THEN Return(moves + 1, "")
                     ELSE UNCHANGED <<pc, result>>
    /\ UNCHANGED <<board_config, names, agent, total_ships, ships_sunk, step_size,
                   randomVars, calls, envVars>>

\* seek, line 96, and start_game, line 118: the lattice is exhausted
SeekExhausted ==
    /\ pc = "seek"
    /\ LatticeNext = {}
    /\ Return(-1, "Unknown Error: Should not have happened")
    /\ UNCHANGED <<boardVars, names, agent, visited, total_ships, ships_sunk, moves,
                   step_size, pos, sinkVars, randomVars, raised, attacks, trace, sunk_seen,
                   last, calls, envVars>>

\* sink without line 107: the attacked neighbour is not marked visited
SinkProbeUnmarked(counting) ==
    LET s == SinkScan(queue, ij, nbr, n, visited)
        cell == Neighbour(s.ij, s.nbr)
        a == Strike(cell)
    IN /\ s.found
       /\ Struck(cell, a)
       /\ visited' = visited
       /\ queue' = IF a.result = "HIT" THEN Append(s.queue, cell) ELSE s.queue
       /\ ij' = s.ij
       /\ nbr' = s.nbr + 1
       /\ moves' = IF counting THEN moves + 1 ELSE moves
       /\ ships_sunk' = IF counting /\ a.result = "SUNK" THEN ships_sunk + 1 ELSE ships_sunk

\* sink with line 109 true of every outcome: the neighbour is always enqueued
SinkProbeEnqueueAll(counting) ==
    LET s == SinkScan(queue, ij, nbr, n, visited)
        cell == Neighbour(s.ij, s.nbr)
        a == Strike(cell)
    IN /\ s.found
       /\ Struck(cell, a)
       /\ visited' = [visited EXCEPT ![cell] = 1]
       /\ queue' = Append(s.queue, cell)
       /\ ij' = s.ij
       /\ nbr' = s.nbr + 1
       /\ moves' = IF counting THEN moves + 1 ELSE moves
       /\ ships_sunk' = IF counting /\ a.result = "SUNK" THEN ships_sunk + 1 ELSE ships_sunk

\* sink, lines 101-112 (and 186-196): the next neighbour that is attacked;
\* counting tells OptimalAgent.sink, which keeps moves and ships_sunk, from
\* RandomAgent.sink
SinkProbe(counting) ==
    LET s == SinkScan(queue, ij, nbr, n, visited)
        cell == Neighbour(s.ij, s.nbr)
        a == Strike(cell)
    IN /\ s.found
       /\ Struck(cell, a)
       /\ visited' = [visited EXCEPT ![cell] = 1]
       /\ queue' = IF a.result = "HIT" THEN Append(s.queue, cell) ELSE s.queue
       /\ ij' = s.ij
       /\ nbr' = s.nbr + 1
       /\ moves' = IF counting THEN moves + 1 ELSE moves
       /\ ships_sunk' = IF counting /\ a.result = "SUNK" THEN ships_sunk + 1 ELSE ships_sunk

SinkEmpty == ~SinkScan(queue, ij, nbr, n, visited).found

OptimalSink ==
    /\ pc = "sink"
    /\ SinkProbe(TRUE)
    /\ UNCHANGED <<board_config, pc, names, agent, total_ships, step_size, pos,
                   randomVars, result, raised, calls, envVars>>

\* seek without lines 94-95 after a sink: the loops always go on
SeekResumeOnward ==
    /\ pc = "sink"
    /\ agent = "OptimalAgent"
    /\ SinkEmpty
    /\ queue' = <<>>
    /\ ij' = <<>>
    /\ nbr' = 1
    /\ pc' = "seek" /\ result' = result
    /\ UNCHANGED <<boardVars, names, agent, visited, total_ships, ships_sunk, moves,
                   step_size, pos, randomVars, raised, attacks, trace, sunk_seen, last, calls, envVars>>

\* sink returns into seek, lines 94-95
SeekResume ==
    /\ pc = "sink"
    /\ agent = "OptimalAgent"
    /\ SinkEmpty
    /\ queue' = <<>>
    /\ ij' = <<>>
    /\ nbr' = 1
    /\ IF ships_sunk = total_ships
       THEN Return(moves, "")
       ELSE pc' = "seek" /\ result' = result
    /\ UNCHANGED <<boardVars, names, agent, visited, total_ships, ships_sunk, moves,
                   step_size, pos, randomVars, raised, attacks, trace, sunk_seen, last, calls, envVars>>

(***************************************************************************)
(* RandomAgent (src/agent.py:160-201).                                     *)
(***************************************************************************)
\* __init__, then start_game enters seek; line 166 needs the name random
NewRandomAgent(sd) ==
    /\ pc = "board"
    /\ BaseInit("RandomAgent")
    /\ seed' = sd
    /\ IF "random" \in names
       THEN pc' = "rseek" /\ raised' = raised /\ available_cells' = Shuffle(sd, n)
       ELSE pc' = "raised" /\ raised' = "NameError" /\ available_cells' = available_cells
    /\ UNCHANGED <<boardVars, names, total_ships, ships_sunk, moves, step_size, pos,
                   sinkVars, result, attacks, trace, sunk_seen, last, calls, envVars>>

\* the places of available_cells that hold an unvisited cell
Unvisited == { k \in 1 .. Len(available_cells) : visited[available_cells[k]] = 0 }

\* seek, lines 172-181: cells are popped from the end of the list up to the
\* first unvisited one, which is attacked
RandomSeek ==
    /\ pc = "rseek"
    /\ Unvisited # {}
    /\ LET k == CHOOSE k \in Unvisited : \A m \in Unvisited : k >= m
           cell == available_cells[k]
           a == Strike(cell)
       IN /\ available_cells' = SubSeq(available_cells, 1, k - 1)
          /\ Struck(cell, a)
          /\ visited' = [visited EXCEPT ![cell] = 1]
          /\ IF a.result = "HIT"
             THEN EnterSink(cell, "rsink")
             ELSE UNCHANGED <<pc, sinkVars, raised>>
    /\ UNCHANGED <<board_config, names, agent, total_ships, ships_sunk, moves, step_size,
                   pos, seed, result, calls, envVars>>

\* seek's loop ends with the list (line 172); start_game returns, line 201
RandomReturn ==
    /\ pc = "rseek"
    /\ Unvisited = {}
    /\ available_cells' = <<>>
    /\ Return(CountVisited(visited), "")
    /\ UNCHANGED <<boardVars, names, agent, visited, total_ships, ships_sunk, moves,
                   step_size, pos, sinkVars, seed, raised, attacks, trace, sunk_seen, last,
                   calls, envVars>>

RandomSink ==
    /\ pc = "rsink"
    /\ SinkProbe(FALSE)
    /\ UNCHANGED <<board_config, pc, names, agent, total_ships, step_size, pos,
                   randomVars, result, raised, calls, envVars>>

\* a return from sink that clears the visited mask
RandomSinkReturnReset ==
    /\ pc = "rsink"
    /\ SinkEmpty
    /\ queue' = <<>>
    /\ ij' = <<>>
    /\ nbr' = 1
    /\ pc' = "rseek"
    /\ visited' = [cell \in Cells(n) |-> 0]
    /\ UNCHANGED <<boardVars, names, agent, total_ships, ships_sunk, moves,
                   step_size, pos, randomVars, result, raised, attacks, trace, sunk_seen,
                   last, calls, envVars>>

\* sink returns into seek's while loop
RandomSinkReturn ==
    /\ pc = "rsink"
    /\ SinkEmpty
    /\ queue' = <<>>
    /\ ij' = <<>>
    /\ nbr' = 1
    /\ pc' = "rseek"
    /\ UNCHANGED <<boardVars, names, agent, visited, total_ships, ships_sunk, moves,
                   step_size, pos, randomVars, result, raised, attacks, trace, sunk_seen,
                   last, calls, envVars>>

(***************************************************************************)
(* One run of app.run_game (src/app.py:88-102).                            *)
(***************************************************************************)
Next ==
    \/ Construct
    \/ NewBruteForceAgent
    \/ BruteStep
    \/ NewOptimalAgent
    \/ SeekProbe
    \/ SeekExhausted
    \/ OptimalSink
    \/ SeekResume
    \/ \E sd \in 0 .. MaxSeed : NewRandomAgent(sd)
    \/ RandomSeek
    \/ RandomReturn
    \/ RandomSink
    \/ RandomSinkReturn

Spec == Init /\ [][Next]_vars

(***************************************************************************)
(* A direct caller of BattleshipBoard.attack: any row and column, in range *)
(* or not, up to MaxCalls calls on one board.                              *)
(***************************************************************************)
AttackConfigs == UNION { ConfigsOfSize(k) : k \in AttackSizes }

\* rows and columns a direct caller passes: the grid, -1 (the last row to
\* numpy), and the first index past either end of the axis
DirectArgs == {0 - n - 1, -1} \cup (0 .. n)

InitAttack == InitWith(AttackConfigs, { {} }) /\ answers = <<>>

DirectAttack(r, c) ==
    /\ pc = "board"
    /\ calls < MaxCalls
    /\ LET a == attack(board, SHIP_CELLS, n, r, c)
       IN /\ board' = a.board
          /\ SHIP_CELLS' = a.SHIP_CELLS
          /\ attacks' = IF a.result = "IndexError" THEN attacks
                        ELSE [attacks EXCEPT ![<<Wrap(r, n), Wrap(c, n)>>] = @ + 1]
          /\ sunk_seen' = sunk_seen + (IF a.result = "SUNK" THEN 1 ELSE 0)
          /\ last' = [r |-> r, c |-> c, result |-> a.result]
    /\ calls' = calls + 1
    /\ UNCHANGED <<board_config, pc, names, agent, visited, total_ships, ships_sunk,
                   moves, step_size, pos, queue, ij, nbr, available_cells, seed,
                   result, raised, trace, envVars>>

NextAttack ==
    \/ Construct
    \/ \E r \in DirectArgs, c \in DirectArgs : DirectAttack(r, c)

SpecAttack == InitAttack /\ [][NextAttack]_vars

(***************************************************************************)
(* OptimalAgent.sink called on its own: a fresh agent, on a board with one *)
(* ship, strikes a cell the way seek does (lines 87-92) and, on HIT, runs  *)
(* sink from it.                                                           *)
(***************************************************************************)
SinkConfigs ==
    UNION { { [n |-> k, ships |-> <<Ship(l, b, 1, <<at>>)>>] :
                l \in 1 .. k, b \in 1 .. k, at \in Cells(k) } : k \in 1 .. MaxN }

InitSink == InitWith(SinkConfigs, Namespaces) /\ answers = <<>>

SinkFrom(cell) ==
    /\ pc = "seek"
    /\ moves = 0
    /\ LET a == Strike(cell)
       IN /\ Struck(cell, a)
          /\ moves' = moves + 1
          /\ visited' = [visited EXCEPT ![cell] = 1]
          /\ IF a.result = "HIT"
             THEN EnterSink(cell, "sink")
             ELSE pc' = "nosink" /\ UNCHANGED <<sinkVars, raised>>
    /\ UNCHANGED <<board_config, names, agent, total_ships, ships_sunk, step_size, pos,
                   randomVars, result, calls, envVars>>

\* sink returns to its caller
SinkDone ==
    /\ pc = "sink"
    /\ SinkEmpty
    /\ queue' = <<>>
    /\ ij' = <<>>
    /\ nbr' = 1
    /\ pc' = "returned"
    /\ UNCHANGED <<boardVars, names, agent, visited, total_ships, ships_sunk, moves,
                   step_size, pos, randomVars, result, raised, attacks, trace, sunk_seen,
                   last, calls, envVars>>

NextSink ==
    \/ Construct
    \/ NewOptimalAgent
    \/ \E cell \in Cells(n) : SinkFrom(cell)
    \/ OptimalSink
    \/ SinkDone

SpecSink == InitSink /\ [][NextSink]_vars

(***************************************************************************)
(* Two BattleshipBoard instances alive in one process.  SHIP_CELLS is a    *)
(* class attribute (src/board.py:20) that __init__ and attack reach        *)
(* through self and never rebind, so both instances write the one dict;    *)
(* each instance has its own grid.  The first instance is the one of       *)
(* Construct; the second is built at any later moment, and attack calls on *)
(* the two are interleaved freely.                                         *)
(***************************************************************************)
\* a dict that keeps the entries it has
KeptCells(old, written) == IF old = <<>> THEN written ELSE old

\* the class dict after a constructor that wrote the entries `written`
\* (line 72: ids from 1) has run in a process whose dict was `old`
SharedCells(old, written) ==
    [id \in 1 .. Max(Len(old), Len(written)) |->
        IF id <= Len(written) THEN written[id] ELSE old[id]]

\* accepted boards of one ship type with every position on the grid
TwoBoardConfigs ==
    { cfg \in AttackConfigs :
        /\ Len(cfg.ships) = 1
        /\ cfg.ships[1].count >= 1
        /\ Range(cfg.ships[1].positions) \subseteq Cells(cfg.n)
        /\ NewBoard(cfg).err = "" }

InitTwoBoards == InitWith(TwoBoardConfigs, { {} }) /\ answers = <<>>

\* BattleshipBoard(cfg) for the second instance
ConstructOther(cfg) ==
    /\ pc = "board"
    /\ other_board = <<>>
    /\ cfg.n = n
    /\ LET b == NewBoard(cfg)
       IN /\ other_board' = b.board
          /\ SHIP_CELLS' = SharedCells(SHIP_CELLS, b.SHIP_CELLS)
    /\ UNCHANGED <<board_config, board, pc, names, agent, visited, total_ships,
                   ships_sunk, moves, step_size, pos, sinkVars, randomVars, result,
                   raised, attacks, trace, sunk_seen, last, calls, answers, first>>

\* attack(r, c) on the first instance
FirstAttacked(cell) ==
    /\ pc = "board"
    /\ calls < MaxCalls
    /\ Struck(cell, Strike(cell))
    /\ calls' = calls + 1
    /\ UNCHANGED <<board_config, pc, names, agent, visited, total_ships, ships_sunk,
                   moves, step_size, pos, sinkVars, randomVars, result, raised, envVars>>

\* attack(r, c) on the second instance
OtherAttacked(cell) ==
    /\ pc = "board"
    /\ other_board # <<>>
    /\ calls < MaxCalls
    /\ LET a == attack(other_board, SHIP_CELLS, n, cell[1], cell[2])
       IN /\ other_board' = a.board
          /\ SHIP_CELLS' = a.SHIP_CELLS
    /\ calls' = calls + 1
    /\ UNCHANGED <<board_config, board, pc, names, agent, visited, total_ships,
                   ships_sunk, moves, step_size, pos, sinkVars, randomVars, result,
                   raised, attacks, trace, sunk_seen, last, answers, first>>

NextTwoBoards ==
    \/ Construct
    \/ \E cfg \in TwoBoardConfigs : ConstructOther(cfg)
    \/ \E cell \in Cells(n) : FirstAttacked(cell)
    \/ \E cell \in Cells(n) : OtherAttacked(cell)

SpecTwoBoards == InitTwoBoards /\ [][NextTwoBoards]_vars

(***************************************************************************)
(* An agent on a BattleshipAgentBoard whose attack function is not the     *)
(* board's own (src/board.py:128-132 takes any callable): the function     *)
(* returns, for each cell, any of the four outcomes.  An agent attacks a   *)
(* cell at most once, so one outcome per cell gives every sequence of      *)
(* outcomes a game can meet.                                               *)
(***************************************************************************)
\* accepted boards of at most one ship type with every position on the grid
OracleConfigs ==
    { cfg \in AttackConfigs :
        /\ Len(cfg.ships) <= 1
        /\ \A i \in 1 .. Len(cfg.ships) :
              Range(cfg.ships[i].positions) \subseteq Cells(cfg.n)
        /\ NewBoard(cfg).err = "" }

InitOracle ==
    /\ InitWith(OracleConfigs, Namespaces)
    /\ answers \in [Cells(n) -> AttackResult]

SpecOracle == InitOracle /\ [][Next]_vars

(***************************************************************************)
(* OptimalAgent on the 5 x 5 board with two 1 x 2 ships and one 2 x 2      *)
(* ship, every placement that keeps each ship on the grid; the constructor *)
(* rejects the overlapping ones.                                           *)
(***************************************************************************)
BoardFiveConfigs ==
    { [n |-> 5, ships |-> <<Ship(1, 2, 2, <<p1, p2>>), Ship(2, 2, 1, <<p3>>)>>] :
        p1 \in (0 .. 4) \X (0 .. 3), p2 \in (0 .. 4) \X (0 .. 3),
        p3 \in (0 .. 3) \X (0 .. 3) }

InitFive == InitWith(BoardFiveConfigs, Namespaces) /\ answers = <<>>

NextFive ==
    \/ Construct
    \/ NewOptimalAgent
    \/ SeekProbe
    \/ SeekExhausted
    \/ OptimalSink
    \/ SeekResume

SpecFive == InitFive /\ [][NextFive]_vars

(***************************************************************************)
(* BattleshipBoard.__init__ on configurations of up to three ship types,   *)
(* each type placing no ship or one.                                       *)
(***************************************************************************)
TypeChoices(k) == ShipsOfType(k, 0) \cup ShipsOfType(k, 1)

ConstructConfigs ==
    UNION { { [n |-> k, ships |-> ships] :
                ships \in { <<s>> : s \in TypeChoices(k) }
                          \cup (TypeChoices(k) \X TypeChoices(k))
                          \cup (TypeChoices(k) \X TypeChoices(k) \X TypeChoices(k)) } :
            k \in AttackSizes }

InitConstruct == InitWith(ConstructConfigs, { {} }) /\ answers = <<>>

NextConstruct == Construct

SpecConstruct == InitConstruct /\ [][NextConstruct]_vars

(***************************************************************************)
(* run_game called twice in one process with the same board, agent         *)
(* "random" and the same seed (as app.run_experiments does, game after     *)
(* game): the second call builds a new BattleshipBoard, whose constructor  *)
(* writes the class dict the first game left, and a new RandomAgent.       *)
(***************************************************************************)
InitReplay == InitWith(Configs, Namespaces) /\ answers = <<>>

\* the second run_game, lines 89-97, after the first has returned
PlayAgain ==
    /\ pc = "done"
    /\ agent = "RandomAgent"
    /\ first = <<>>
    /\ first' = [trace |-> trace, result |-> result]
    /\ LET b == NewBoard(board_config)
       IN /\ board' = b.board
          /\ SHIP_CELLS' = SharedCells(SHIP_CELLS, b.SHIP_CELLS)
    /\ attacks' = [cell \in Cells(n) |-> 0]
    /\ trace' = <<>>
    /\ sunk_seen' = 0
    /\ last' = NoCall
    /\ result' = <<>>
    /\ visited' = [cell \in Cells(n) |-> 0]
    /\ available_cells' = Shuffle(seed, n)
    /\ pc' = "rseek"
    /\ UNCHANGED <<board_config, names, agent, total_ships, ships_sunk, moves, step_size,
                   pos, sinkVars, seed, raised, calls, answers, other_board>>

NextReplay ==
    \/ Construct
    \/ \E sd \in 0 .. MaxSeed : NewRandomAgent(sd)
    \/ RandomSeek
    \/ RandomReturn
    \/ RandomSink
    \/ RandomSinkReturn
    \/ PlayAgain

SpecReplay == InitReplay /\ [][NextReplay]_vars

(***************************************************************************)
(* Notions the properties below are stated in.                             *)
(***************************************************************************)
\* the grid as the constructor left it
Placed == NewBoard(board_config).board

ShipCellsLeft == { cell \in DOMAIN board : board[cell] > 0 }

\* every placed ship is destroyed in the ground truth
AllDestroyed ==
    /\ ShipCellsLeft = {}
    /\ \A id \in 1 .. Len(SHIP_CELLS) : SHIP_CELLS[id] = 0

Succeeded == pc = "done" /\ result[2] = ""

\* the sum of f over the cells of a grid of the given size, from cell k on
RECURSIVE SumCells(_, _, _)
SumCells(f, k, size) ==
    IF k >= size * size THEN 0
    ELSE f[<<k \div size, k % size>>] + SumCells(f, k + 1, size)

\* the attack calls answered so far
TotalAttacks == IF DOMAIN attacks = {} THEN 0 ELSE SumCells(attacks, 0, n)

InGrid(r, c) == 0 <= r /\ r < n /\ 0 <= c /\ c < n

\* every declared position is a cell of the grid
PositionsOnGrid ==
    \A i \in 1 .. Len(board_config.ships) :
        Range(board_config.ships[i].positions) \subseteq Cells(n)

\* the declared types that are smallest in length and in breadth
MinimalTypes ==
    { i \in 1 .. Len(board_config.ships) :
        \A j \in 1 .. Len(board_config.ships) :
            /\ board_config.ships[i].length <= board_config.ships[j].length
            /\ board_config.ships[i].breadth <= board_config.ships[j].breadth }

\* the cells seek's loops reach on the grid
LatticeCells ==
    { LatticeCell(k, n, large_side, small_side) :
        k \in 0 .. LatticeLen(n, large_side, small_side) - 1 } \cap Cells(n)

\* the in-bounds placements of an l x b ship, each as its set of cells
Placements(l, b) ==
    { Range(PlacementCells(l, b, x, y)) : x \in 0 .. n - l, y \in 0 .. n - b }

C3_OptimalAlwaysSucceeds ==
    (agent = "OptimalAgent" /\ PositionsOnGrid /\ pc = "done") => result[2] = ""

(***************************************************************************)
(* C4 (as claimed): the cells of seek's lattice meet every in-bounds       *)
(* placement of every minimal declared ship type.                          *)
(***************************************************************************)
C4_LatticeCoversMinimalTarget ==
    (agent = "OptimalAgent" /\ pc = "seek") =>
        \A i \in MinimalTypes :
            \A placement \in Placements(board_config.ships[i].length,
                                        board_config.ships[i].breadth) :
                placement \cap LatticeCells # {}

Called == calls' = calls + 1

BoardUnchanged == board' = board /\ SHIP_CELLS' = SHIP_CELLS

(***************************************************************************)
(* C6: attack on an in-range cell: an empty cell returns MISS and becomes  *)
(* struck; a struck cell returns HIT; a ship cell becomes struck, lowers   *)
(* its own ship's remaining count by one and returns SUNK when the count   *)
(* reaches zero, HIT otherwise; no other cell and no other count changes.  *)
(***************************************************************************)
C6_AttackRule ==
    [][ (Called /\ InGrid(last'.r, last'.c)) =>
          LET cell == <<last'.r, last'.c>>
              id == board[cell]
          IN /\ \A other \in Cells(n) \ {cell} : board'[other] = board[other]
             /\ board[cell] = CELL_EMPTY =>
                   /\ last'.result = "MISS"
                   /\ board'[cell] = CELL_HIT
                   /\ SHIP_CELLS' = SHIP_CELLS
             /\ board[cell] = CELL_HIT =>
                   /\ last'.result = "HIT"
                   /\ BoardUnchanged
             /\ board[cell] > 0 =>
                   /\ board'[cell] = CELL_HIT
                   /\ SHIP_CELLS'[id] = SHIP_CELLS[id] - 1
                   /\ \A k \in (1 .. Len(SHIP_CELLS)) \ {id} : SHIP_CELLS'[k] = SHIP_CELLS[k]
                   /\ Len(SHIP_CELLS') = Len(SHIP_CELLS)
                   /\ last'.result = IF SHIP_CELLS'[id] = 0 THEN "SUNK" ELSE "HIT"
      ]_vars

\* all three outcomes have been returned on one board with two ships: the
\* last call sank one ship while the other is untouched
C6_Witness ==
    /\ calls = 3
    /\ InGrid(last.r, last.c)
    /\ last.result = "SUNK"
    /\ Len(SHIP_CELLS) = 2
    /\ \E id \in 1 .. 2 : SHIP_CELLS[id] = 0
    /\ \E id \in 1 .. 2 : SHIP_CELLS[id] > 0
    /\ \E cell \in Cells(n) : Placed[cell] = 0 /\ board[cell] = CELL_HIT

(***************************************************************************)
(* C7: the strike that leaves a ship with unstruck cells returns HIT, and  *)
(* every later attack on that struck cell, while its ship is not fully     *)
(* destroyed, returns HIT and changes neither the grid nor a count.        *)
(***************************************************************************)
C7_RepeatedAttackIsHit ==
    [][ (Called /\ InGrid(last'.r, last'.c)) =>
          LET cell == <<last'.r, last'.c>>
              id == Placed[cell]
          IN /\ (board[cell] > 0 /\ SHIP_CELLS[id] > 1) => last'.result = "HIT"
             /\ (id > 0 /\ attacks[cell] >= 1 /\ SHIP_CELLS[id] > 0) =>
                   /\ last'.result = "HIT"
                   /\ BoardUnchanged
      ]_vars

\* one cell of a ship that is still afloat has been attacked three times
C7_Witness ==
    /\ calls = 3
    /\ InGrid(last.r, last.c)
    /\ last.result = "HIT"
    /\ attacks[<<last.r, last.c>>] = 3
    /\ Placed[<<last.r, last.c>>] > 0
    /\ SHIP_CELLS[Placed[<<last.r, last.c>>]] > 0

(***************************************************************************)
(* C8 (as claimed): an attack whose row or column lies outside 0..n-1      *)
(* returns INVALID.                                                        *)
(***************************************************************************)
C8_OutOfRangeIsInvalid ==
    (calls > 0 /\ ~InGrid(last.r, last.c)) => last.result = "INVALID"

Ended == pc \in {"rejected", "done", "raised"}

\* where control is: 0 at the end, sink above the loop that called it
Phase ==
    CASE pc = "start" -> 4
      [] pc = "board" -> 3
      [] pc \in {"sink", "rsink"} -> 2
      [] pc \in {"brute", "seek", "rseek"} -> 1
      [] OTHER -> 0

\* the cells not attacked yet, weighed above the phase
Measure == 4 * (n * n - TotalAttacks) + Phase

C10_EndsWithinGridSize ==
    /\ [](TotalAttacks <= n * n /\ Measure >= 0)
    /\ [][Measure' < Measure]_vars

\* a game that attacked every cell of a 3 x 3 grid has returned
C10_Witness ==
    /\ pc = "done"
    /\ n = 3
    /\ TotalAttacks = n * n
    /\ agent = "OptimalAgent"

(***************************************************************************)
(* The first instance had it been the only one of its process: the calls   *)
(* of trace replayed on a board built from board_config.                   *)
(***************************************************************************)
RECURSIVE Replay(_, _, _)
Replay(st, cells, k) ==
    IF k > Len(cells) THEN st
    ELSE Replay(attack(st.board, st.SHIP_CELLS, n, cells[k][1], cells[k][2]), cells, k + 1)

Alone ==
    LET b == NewBoard(board_config)
    IN Replay([result |-> "NONE", board |-> b.board, SHIP_CELLS |-> b.SHIP_CELLS],
              trace, 1)

(***************************************************************************)
(* C11 (as claimed): with a second instance alive, every attack on the     *)
(* first board returns what it would return, and leaves the remaining-cell *)
(* counts of the first board's ships as they would be, had the second      *)
(* board never been constructed or attacked.                               *)
(***************************************************************************)
C11_InstancesShareNoState ==
    pc = "board" =>
        /\ last.result = Alone.result
        /\ \A id \in 1 .. Len(Alone.SHIP_CELLS) : SHIP_CELLS[id] = Alone.SHIP_CELLS[id]

(***************************************************************************)
(* C12: whatever outcomes the attack function returns, a result returned   *)
(* by start_game is either -1 with a non-empty message or a move count of  *)
(* 0 or more with the empty message.                                       *)
(***************************************************************************)
C12_ResultShape ==
    result # <<>> =>
        \/ result[1] = -1 /\ result[2] # ""
        \/ result[1] >= 0 /\ result[2] = ""

\* OptimalAgent has returned its failure from a game that met an INVALID
\* outcome
C12_Witness ==
    /\ pc = "done"
    /\ agent = "OptimalAgent"
    /\ result[1] = -1
    /\ result[2] # ""
    /\ \E cell \in Cells(n) : attacks[cell] = 1 /\ answers[cell] = "INVALID"

(***************************************************************************)
(* C20: the attack of BruteForceAgent that returns INVALID makes           *)
(* start_game return -1 with a non-empty message in that same iteration,   *)
(* and no attack follows an INVALID outcome.                               *)
(***************************************************************************)
C20_InvalidIsFatal ==
    [][ agent = "BruteForceAgent" =>
          /\ (attacks' # attacks /\ last'.result = "INVALID") =>
                 /\ pc' = "done"
                 /\ result'[1] = -1
                 /\ result'[2] # ""
          /\ last.result = "INVALID" => attacks' = attacks
      ]_vars

\* the first probe returned INVALID on a board that declares no ship, where
\* the destroyed counter already equals the total
C20_Witness ==
    /\ agent = "BruteForceAgent"
    /\ pc = "done"
    /\ last.result = "INVALID"
    /\ result = <<-1, "INVALID ERROR">>
    /\ ships_sunk = total_ships
    /\ TotalAttacks = 1

(***************************************************************************)
(* C13: on an accepted board that places at least one ship,                *)
(* BruteForceAgent attacks the cells in row-major order, raises nothing,   *)
(* and returns (k, "") where the k-th attack, k <= n * n, is the one that  *)
(* returned the last SUNK; on the 4 x 4 board with one 1 x 2 ship on       *)
(* (0,0),(0,1) it returns 2 moves.                                         *)
(***************************************************************************)
C13_BruteForceReturnsLastSunk ==
    (agent = "BruteForceAgent" /\ Len(SHIP_CELLS) >= 1) =>
        /\ \A k \in 1 .. Len(trace) : trace[k] = <<(k - 1) \div n, (k - 1) % n>>
        /\ pc # "raised"
        /\ pc = "done" =>
              /\ result = <<Len(trace), "">>
              /\ Len(trace) <= n * n
              /\ last = [r |-> trace[Len(trace)][1], c |-> trace[Len(trace)][2],
                         result |-> "SUNK"]
              /\ sunk_seen = Len(SHIP_CELLS)
              /\ AllDestroyed
              /\ board_config = BoardFour => result = <<2, "">>

C13_Witness ==
    /\ agent = "BruteForceAgent"
    /\ board_config = BoardFour
    /\ pc = "done"
    /\ result = <<2, "">>
    /\ trace = << <<0, 0>>, <<0, 1>> >>

(***************************************************************************)
(* C14 (as claimed): on the 5 x 5 board with two 1 x 2 ships and one 2 x 2 *)
(* ship, for every accepted placement, OptimalAgent.start_game returns     *)
(* success with ships_sunk = 3 and fewer than 25 moves.                    *)
(***************************************************************************)
C14_BoardFiveSucceeds ==
    (agent = "OptimalAgent" /\ pc \in {"done", "raised"}) =>
        /\ Succeeded
        /\ ships_sunk = 3
        /\ result[1] < 25

(***************************************************************************)
(* C15 (as claimed): in OptimalAgent ships_sunk equals, at every point,    *)
(* the number of SUNK outcomes attack has returned, whether seek or sink   *)
(* issued the probe.  Stated for the boards whose positions are all on the *)
(* grid.                                                                   *)
(***************************************************************************)
C15_SunkCountedOnce ==
    (agent = "OptimalAgent" /\ PositionsOnGrid) => ships_sunk = sunk_seen

(***************************************************************************)
(* C16: the move count returned on success equals the number of attack     *)
(* calls of the game; every attack raises the running count by one (moves  *)
(* for BruteForceAgent and OptimalAgent, the marked cells of the mask for  *)
(* RandomAgent) and no step lowers it.                                     *)
(***************************************************************************)
MarkedCells(mask) == { cell \in DOMAIN mask : mask[cell] = 1 }

PlacementIds ==
    { sp \in (1 .. Len(board_config.ships)) \X (1 .. n * n + 2) :
        sp[2] <= Len(board_config.ships[sp[1]].positions) }

RECURSIVE PositionsBefore(_)
PositionsBefore(s) ==
    IF s <= 1 THEN 0 ELSE Len(board_config.ships[s - 1].positions) + PositionsBefore(s - 1)

IdOf(sp) == PositionsBefore(sp[1]) + sp[2]

CellsOf(sp) ==
    LET ship == board_config.ships[sp[1]]
    IN Range(PlacementCells(ship.length, ship.breadth,
                            ship.positions[sp[2]][1], ship.positions[sp[2]][2]))

RECURSIVE DeclaredArea(_)
DeclaredArea(i) ==
    IF i > Len(board_config.ships) THEN 0
    ELSE board_config.ships[i].length * board_config.ships[i].breadth
             * board_config.ships[i].count + DeclaredArea(i + 1)

AreaExceeds == DeclaredArea(1) > n * n

Miscounted ==
    \E i \in 1 .. Len(board_config.ships) :
        board_config.ships[i].count # Len(board_config.ships[i].positions)

Overlapping ==
    \E sp \in PlacementIds, tq \in PlacementIds : sp # tq /\ CellsOf(sp) \cap CellsOf(tq) # {}

OffGrid == \E sp \in PlacementIds : ~(CellsOf(sp) \subseteq Cells(n))

(***************************************************************************)
(* C17 (as claimed): of the configurations that pass every other check,    *)
(* the constructor accepts those in which some type has both the smallest  *)
(* length and the smallest breadth, and rejects those in which none has.   *)
(***************************************************************************)
C17_MinimalTypeCheck ==
    (/\ pc # "start"
     /\ Len(board_config.ships) >= 1
     /\ ~AreaExceeds /\ ~Miscounted /\ ~Overlapping /\ ~OffGrid)
        => (pc = "rejected" <=> MinimalTypes = {})

(***************************************************************************)
(* C18 (as claimed): the constructor rejects, with a ValueError, every     *)
(* configuration whose area exceeds n * n, whose count differs from its    *)
(* number of positions, whose placements overlap or leave the grid         *)
(* (negative start positions included); a configuration that violates none *)
(* of these and passes the minimal-dimension check of lines 58-62 is built *)
(* with every placed cell carrying the id of its placement.                *)
(***************************************************************************)
PassesMinimalCheck == ~MinimalShipMissing(ScanShips(board_config.ships, 1, ScanStart))

C18_ConstructorValidates ==
    pc \in {"board", "rejected"} =>
        /\ (AreaExceeds \/ Miscounted \/ Overlapping \/ OffGrid) =>
               pc = "rejected" /\ raised = "ValueError"
        /\ (~AreaExceeds /\ ~Miscounted /\ ~Overlapping /\ ~OffGrid
               /\ PassesMinimalCheck) =>
               /\ pc = "board"
               /\ \A sp \in PlacementIds : \A cell \in CellsOf(sp) : board[cell] = IdOf(sp)

DescribedSmall ==
    LET i == CHOOSE i \in MinimalTypes : TRUE
    IN Min(board_config.ships[i].length, board_config.ships[i].breadth)

DescribedLarge ==
    LET i == CHOOSE i \in MinimalTypes : TRUE
    IN Max(board_config.ships[i].length, board_config.ships[i].breadth)

OnGridCell(cell) == cell \in Cells(n)

DescribedProbes ==
    SelectSeq([k \in 1 .. LatticeLen(n, DescribedLarge, DescribedSmall) |->
                  LatticeCell(k - 1, n, DescribedLarge, DescribedSmall)],
              OnGridCell)

AllMiss == answers = [cell \in Cells(n) |-> "MISS"]

(***************************************************************************)
(* C21 (as claimed): when every probe misses, the cells seek has probed by *)
(* the time it returns are the in-bounds cells (r + x, c + x), r and c     *)
(* over the multiples of large_side, x over the multiples of small_side    *)
(* below large_side, in that order, with small_side and large_side the     *)
(* smaller and larger side of the minimal type.                            *)
(***************************************************************************)
C21_LatticeOrder ==
    (/\ agent = "OptimalAgent"
     /\ AllMiss
     /\ MinimalTypes # {}
     /\ total_ships >= 1
     /\ pc = "done")
        => trace = DescribedProbes

(***************************************************************************)
(* C22: seek short-circuit.  When a lattice probe of OptimalAgent.seek,    *)
(* together with the sink it triggered, is over and the destroyed counter  *)
(* equals the total, seek returns true at once: start_game returns the     *)
(* moves counted so far, which are the attacks made so far, with an empty  *)
(* message, and no cell is attacked after the return.                      *)
(***************************************************************************)
ProbeOver ==
    /\ agent = "OptimalAgent"
    /\ \/ pc = "seek" /\ trace' # trace /\ pc' # "sink"
       \/ pc = "sink" /\ pc' # "sink"
    /\ pc' # "raised"

SinkStart == LatticeCell(pos - 1, n, large_side, small_side)

\* the result the board gave to the k-th attack of the game
Outcome(k) ==
    LET b == NewBoard(board_config)
    IN Replay([result |-> "NONE", board |-> b.board, SHIP_CELLS |-> b.SHIP_CELLS],
              SubSeq(trace, 1, k), 1).result

\* the cells attacked since the running sink started that returned HIT
HitInSink ==
    LET k0 == CHOOSE k \in 1 .. Len(trace) : trace[k] = SinkStart
    IN { trace[k] : k \in { m \in k0 + 1 .. Len(trace) : Outcome(m) = "HIT" } }

Dist(m, k) == IF m >= k THEN m - k ELSE k - m

Playing == pc \in {"seek", "sink", "rseek", "rsink"}

UnstruckCells(b, id) == { cell \in DOMAIN b : b[cell] = id }

Destroyed(b, cells) == { id \in 1 .. Len(cells) : UnstruckCells(b, id) = {} }

C25_RemainingCells ==
    [][ pc' = "board" =>
          /\ \A id \in 1 .. Len(SHIP_CELLS') :
                /\ SHIP_CELLS'[id] = Cardinality(UnstruckCells(board', id))
                /\ SHIP_CELLS'[id] >= 0
          /\ sunk_seen' = Cardinality(Destroyed(board', SHIP_CELLS'))
          /\ (pc = "board" /\ calls' # calls) =>
                ((last'.result = "SUNK") <=>
                   /\ InIndexRange(last'.r, n) /\ InIndexRange(last'.c, n)
                   /\ \E id \in 1 .. Len(SHIP_CELLS) :
                         UnstruckCells(board, id) = {<<Wrap(last'.r, n), Wrap(last'.c, n)>>}) ]_vars

\* a target of two cells destroyed, one of its cells having been attacked twice
C25_Witness ==
    /\ pc = "board"
    /\ agent = ""
    /\ sunk_seen = 1
    /\ \E id \in 1 .. Len(SHIP_CELLS) :
          /\ SHIP_CELLS[id] = 0
          /\ Cardinality(UnstruckCells(Placed, id)) = 2
          /\ \E cell \in UnstruckCells(Placed, id) : attacks[cell] >= 2

(***************************************************************************)
(* C26: in a game of OptimalAgent or RandomAgent on a fresh board, after   *)
(* every attack the cells marked visited in the agent's mask are exactly   *)
(* the cells marked struck in the board's grid.                            *)
(***************************************************************************)
StruckCells == { cell \in DOMAIN board : board[cell] = CELL_HIT }

Untouched(id) == UnstruckCells(board, id) = UnstruckCells(Placed, id)

====
